---- MODULE Spec2Model ----
(***************************************************************************)
(* A model of tonic_validate's ValidateScorer (validate_scorer.py): the    *)
(* two entry points score and score_run, the two ThreadPoolExecutor        *)
(* stages they run (callback generation, per-response scoring) and the     *)
(* aggregation of the per-metric means.                                    *)
(*                                                                         *)
(* Scores are Python floats.  The model keeps floating-point rounding     *)
(* (round to nearest, ties to even) on a narrow mantissa: a value is a     *)
(* natural number of units of 1/32, representable when it is m * 2^e with  *)
(* m < 2^MantissaBits.                                                     *)
(*                                                                         *)
(* ThreadPoolExecutor is modelled by its behaviour: executor.map queues    *)
(* one future per element, at most max_workers of them run at a time, the  *)
(* queue is first in first out, results are taken by position, an          *)
(* exception cancels the futures still queued, and leaving the with block  *)
(* waits for the running ones.                                             *)
(*                                                                         *)
(* Spec is the whole model.  SpecPool is Spec with metrics that return 1.0 *)
(* or raise; SpecRun is score_run called on its own with metrics that      *)
(* return 0.5 or 1.0 or raise; SpecAgg is score_run with one metric that   *)
(* returns 0.25, 0.5 or 1.0.  SpecFair is SpecPool with fair scheduling of *)
(* the threads; SpecHang adds calls that never return.                     *)
(***************************************************************************)
EXTENDS Integers, Sequences, FiniteSets, TLC

\* ------------------------------------------------------------------ bounds
MaxItems == 3
MaxParallelism == 2
MantissaBits == 2
MaxExponent == 7

\* ------------------------------------------------------------------ floats
RECURSIVE Pow2(_)
Pow2(k) == IF k = 0 THEN 1 ELSE 2 * Pow2(k - 1)

SetMax(S) == CHOOSE x \in S : \A y \in S : y <= x
SetMin(S) == CHOOSE x \in S : \A y \in S : x <= y

\* The representable floats of the model.
Floats == { m * Pow2(e) : m \in 0..(Pow2(MantissaBits) - 1), e \in 0..MaxExponent }

\* The float nearest to the rational n/d (n >= 0, d > 0), ties to even.
RoundNearestEven(n, d) ==
    LET below == { r \in Floats : r * d <= n }
        above == { r \in Floats : r * d >= n }
        lo == SetMax(below)
        hi == IF above = {} THEN SetMax(Floats) ELSE SetMin(above)
    IN  IF lo = hi THEN lo
        ELSE IF 2 * n < (lo + hi) * d THEN lo
        ELSE IF 2 * n > (lo + hi) * d THEN hi
        ELSE IF (lo \div (hi - lo)) % 2 = 0 THEN lo ELSE hi

\* total_scores[metric_name] += score
FloatAdd(a, b) == RoundNearestEven(a + b, 1)

\* total / num_scores[metric], for num_scores[metric] > 0
FloatDiv(a, n) == RoundNearestEven(a, n)

\* The scores a metric may return: 0.25, 0.5 and 1.0 in units of 1/32.
ScoreValues == {8, 16, 32}

\* Metrics that return 0.5 or 1.0, and metrics that always return 1.0
HalfOrOne == {16, 32}
AlwaysOne == {32}

\* ------------------------------------------------------------------- dicts
\* A Python dict is a function on its key set; dict equality ignores order.
EmptyDict == [x \in {} |-> x]

\* Faulty variant: d.setdefault(k, v), the first write wins
DictSetDefault(d, k, v) == [x \in (DOMAIN d) \cup {k} |-> IF x \in DOMAIN d THEN d[x] ELSE v]

\* d[k] = v
DictSet(d, k, v) == [x \in (DOMAIN d) \cup {k} |-> IF x = k THEN v ELSE d[x]]

\* defaultdict(float) / defaultdict(int): a missing key reads as 0
DictGet(d, k) == IF k \in DOMAIN d THEN d[k] ELSE 0

\* -------------------------------------------------------------------- data
MetricNames == {"A", "B"}

\* The metric lists a scorer is configured with, as the list of the metrics'
\* names: none, one, two with different names, two sharing a name.
MetricLists == {<<>>, <<"A">>, <<"A", "B">>, <<"A", "A">>}

ModelEvaluators == {"gpt-4-turbo-preview"}

Parallelisms == 1..MaxParallelism

\* BenchmarkItem i of the benchmark: {"question": ..., "answer": ...}
BenchmarkItem(i) == [question |-> <<"q", i>>, answer |-> <<"ref", i>>]

Benchmarks == { [i \in 1..n |-> BenchmarkItem(i)] : n \in 0..MaxItems }

\* LLMResponse(llm_answer, llm_context_list, benchmark_item)
LLMResponse(llm_answer, llm_context_list, item) ==
    [llm_answer |-> llm_answer, llm_context_list |-> llm_context_list,
     benchmark_item |-> item]

\* What the caller's callback does with a question: it returns an
\* (answer, context list) pair or raises.
CallbackOutcomes(question) ==
    { [kind |-> "return", answer |-> <<"ans", question[2]>>,
       context |-> << <<"ctx", question[2]>> >>],
      [kind |-> "raise"] }

\* RunData(scores, question, reference_answer, llm_answer, llm_context_list)
RunData(scores, response) ==
    [scores |-> scores,
     question |-> response.benchmark_item.question,
     reference_answer |-> response.benchmark_item.answer,
     llm_answer |-> response.llm_answer,
     llm_context_list |-> response.llm_context_list]

NoError == [kind |-> "none"]
Unset == [kind |-> "unset"]
Stages == {"gen", "score"}


\* ------------------------------------------------------------- aggregation
\* Faulty variant: the totals start with a zero entry for every metric name
ZeroFilledTotals ==
    [total |-> [m \in MetricNames |-> 0], num |-> [m \in MetricNames |-> 0]]

\* total_scores and num_scores as score_run creates them
InitialTotals == [total |-> EmptyDict, num |-> EmptyDict]

\* Faulty variant: total_scores[metric_name] = score, in place of +=
AddItemAssign(acc, item) ==
    LET keys == DOMAIN item.scores
    IN  [total |-> [m \in (DOMAIN acc.total) \cup keys |->
                        IF m \in keys THEN item.scores[m] ELSE acc.total[m]],
         num   |-> [m \in (DOMAIN acc.num) \cup keys |->
                        IF m \in keys THEN DictGet(acc.num, m) + 1 ELSE acc.num[m]]]

\* Faulty variant: the loop without num_scores[metric_name] += 1
AddItemNoCount(acc, item) ==
    LET keys == DOMAIN item.scores
    IN  [total |-> [m \in (DOMAIN acc.total) \cup keys |->
                        IF m \in keys
                        THEN FloatAdd(DictGet(acc.total, m), item.scores[m])
                        ELSE acc.total[m]],
         num   |-> acc.num]

\* The inner loop: for metric_name, score in item.scores.items()
AddItem(acc, item) ==
    LET keys == DOMAIN item.scores
    IN  [total |-> [m \in (DOMAIN acc.total) \cup keys |->
                        IF m \in keys
                        THEN FloatAdd(DictGet(acc.total, m), item.scores[m])
                        ELSE acc.total[m]],
         num   |-> [m \in (DOMAIN acc.num) \cup keys |->
                        IF m \in keys THEN DictGet(acc.num, m) + 1 ELSE acc.num[m]]]

\* The outer loop over the first n items: for item in run_data
RECURSIVE Accumulate(_, _)
Accumulate(data, n) ==
    IF n = 0 THEN InitialTotals ELSE AddItem(Accumulate(data, n - 1), data[n])

\* total / num_scores[metric] raises ZeroDivisionError on a zero count
DivisionByZero(acc) == \E m \in DOMAIN acc.total : DictGet(acc.num, m) = 0

\* {metric: total / num_scores[metric] for metric, total in total_scores.items()}
OverallScores(acc) == [m \in DOMAIN acc.total |-> FloatDiv(acc.total[m], acc.num[m])]

\* Run(overall_scores, run_data, None)
Run(overall_scores, data) == [overall_scores |-> overall_scores, run_data |-> data, id |-> "None"]

\* ------------------------------------------------------------------- state
VARIABLES
    entry,                \* the entry point the caller invoked: "score" or "score_run"
    metrics,              \* self.metrics, as the list of the metrics' names
    model_evaluator,      \* self.model_evaluator
    items,                \* the benchmark's items (score)
    callback_parallelism, \* score's callback_parallelism
    scoring_parallelism,  \* score's scoring_parallelism, score_run's parallelism
    scoreRange,           \* the scores the configured metrics can return
    pc,                   \* where the calling thread is: <<stage, phase>>
    status,               \* status[s][i]: the state of stage s's i-th future
    result,               \* result[s][i]: that future's result or exception
    collected,            \* collected[s]: the list list(executor.map(...)) has built so far
    idx,                  \* the position whose future the calling thread waits for
    cancelPtr,            \* the position the cancelling loop has reached
    responses,            \* score's and score_run's responses
    scores,               \* scores[i]: the scores dict of the task scoring response i
    metricIdx,            \* metricIdx[i]: the next metric of that task's loop
    service,              \* service[i]: the OpenAIService of that task
    services,             \* services[i]: the OpenAIServices the task scoring response i constructed
    cbCalls,              \* cbCalls[i]: how many times the callback was invoked for item i
    metricCalls,          \* metricCalls[i]: the metric.score calls made for response i
    overtaken,            \* overtaken[s]: a task of stage s finished while an earlier one ran
    run,                  \* the Run returned
    error                 \* the exception raised to the caller

vars == <<entry, metrics, model_evaluator, items, callback_parallelism,
          scoring_parallelism, scoreRange, pc, status, result, collected, idx, cancelPtr,
          responses, scores, metricIdx, service, services, cbCalls, metricCalls,
          overtaken, run, error>>

config == <<entry, metrics, model_evaluator, items, callback_parallelism,
            scoring_parallelism, scoreRange>>

\* What metric.score(response, openai_service) does: a float or an exception.
MetricOutcomes == [kind : {"return"}, score : scoreRange] \cup {[kind |-> "raise", score |-> 0]}

NoRun == [id |-> "no run"]
NoService == [model |-> "none", task |-> 0, serial |-> 0]

\* ThreadPoolExecutor(max_workers=...) of the stage
MaxWorkers(s) == IF s = "gen" THEN callback_parallelism ELSE scoring_parallelism

\* The list executor.map is given in the stage
NumTasks(s) == IF s = "gen" THEN Len(items) ELSE Len(responses)

\* The futures of the stage whose function is running ("hung": running a call
\* that never returns)
InFlight(s) == { i \in DOMAIN status[s] : status[s][i] \in {"running", "hung"} }

\* Faulty variant: a pool that runs one future at a time whatever max_workers is
SerialPool(s) == InFlight(s) = {}

\* Faulty variant: a pool that keeps one of its max_workers threads back
OneWorkerShort(s) == Cardinality(InFlight(s)) < MaxWorkers(s) - 1

\* Faulty variant: a pool that starts a thread for every queued future
UnboundedWorkers(s) == TRUE

\* A worker thread of the pool is free
FreeWorker(s) == Cardinality(InFlight(s)) < MaxWorkers(s)

\* A worker takes future i off the pool's queue: the queue is first in first
\* out, cancelled futures are skipped, and at most max_workers threads exist.
CanStart(s, i) ==
    /\ i \in DOMAIN status[s]
    /\ status[s][i] = "pending"
    /\ \A j \in 1..(i - 1) : status[s][j] # "pending"
    /\ FreeWorker(s)

\* The responses a caller of score_run passes for the benchmark b
CallerResponses(b) ==
    [i \in 1..Len(b) |-> LLMResponse(<<"ans", i>>, << <<"ctx", i>> >>, b[i])]

InitWith(entries, lists, benchmarks, ranges) ==
    /\ entry \in entries
    /\ metrics \in lists
    /\ model_evaluator \in ModelEvaluators
    /\ items \in benchmarks
    /\ callback_parallelism \in (IF entry = "score" THEN Parallelisms ELSE {1})
    /\ scoring_parallelism \in Parallelisms
    /\ scoreRange \in ranges
    /\ pc = IF entry = "score" THEN <<"gen", "map">> ELSE <<"score", "map">>
    /\ status = [s \in Stages |-> <<>>]
    /\ result = [s \in Stages |-> <<>>]
    /\ collected = [s \in Stages |-> <<>>]
    /\ idx = 1
    /\ cancelPtr = 0
    /\ responses = IF entry = "score" THEN <<>> ELSE CallerResponses(items)
    /\ scores = [i \in 1..Len(items) |-> EmptyDict]
    /\ metricIdx = [i \in 1..Len(items) |-> 1]
    /\ service = [i \in 1..Len(items) |-> NoService]
    /\ services = [i \in 1..Len(items) |-> <<>>]
    /\ cbCalls = [i \in 1..Len(items) |-> 0]
    /\ metricCalls = [i \in 1..Len(items) |-> <<>>]
    /\ overtaken = [s \in Stages |-> FALSE]
    /\ run = NoRun
    /\ error = NoError

\* Either entry point, metrics returning any of the scores
Init == InitWith({"score", "score_run"}, MetricLists, Benchmarks, {ScoreValues})

\* Either entry point, metrics that return 1.0 or raise
InitPool == InitWith({"score", "score_run"}, MetricLists, Benchmarks, {AlwaysOne})

\* score_run called on a list of responses, metrics that return 0.5 or 1.0 or raise
InitRun == InitWith({"score_run"}, MetricLists, Benchmarks, {HalfOrOne})

\* score_run called on a list of responses, one metric returning any of the scores
InitAgg == InitWith({"score_run"}, {<<"A">>}, Benchmarks, {ScoreValues})

\* Either entry point, no metric or one metric that returns 1.0, raises or hangs
InitHang == InitWith({"score", "score_run"}, {<<>>, <<"A">>}, Benchmarks, {AlwaysOne})

\* ------------------------------------------------------- the calling thread
\* executor.map(fn, list): one future per element, all queued
Map(s) ==
    /\ pc = <<s, "map">>
    /\ status' = [status EXCEPT ![s] = [i \in 1..NumTasks(s) |-> "pending"]]
    /\ result' = [result EXCEPT ![s] = [i \in 1..NumTasks(s) |-> Unset]]
    /\ collected' = [collected EXCEPT ![s] = <<>>]
    /\ idx' = 1
    /\ pc' = <<s, "collect">>
    /\ UNCHANGED <<config, cancelPtr, responses, scores, metricIdx, service,
                   services, cbCalls, metricCalls, overtaken, run, error>>

\* Faulty variant: results taken as the futures complete, not by position
CollectAsCompleted(s) ==
    /\ pc = <<s, "collect">>
    /\ idx <= NumTasks(s)
    /\ \E j \in DOMAIN status[s] :
          /\ status[s][j] = "done"
          /\ \A k \in 1..Len(collected[s]) : collected[s][k] # result[s][j]
          /\ collected' = [collected EXCEPT ![s] = Append(@, result[s][j])]
    /\ idx' = idx + 1
    /\ UNCHANGED <<config, pc, status, result, cancelPtr, responses, scores,
                   metricIdx, service, services, cbCalls, metricCalls, overtaken, run, error>>

\* list(...) takes the result of the future at position idx
Collect(s) ==
    /\ pc = <<s, "collect">>
    /\ idx <= NumTasks(s)
    /\ status[s][idx] = "done"
    /\ collected' = [collected EXCEPT ![s] = Append(@, result[s][idx])]
    /\ idx' = idx + 1
    /\ UNCHANGED <<config, pc, status, result, cancelPtr, responses, scores,
                   metricIdx, service, services, cbCalls, metricCalls, overtaken, run, error>>

\* Faulty variant: a future that holds an exception is skipped
CollectSkipFailed(s) ==
    /\ pc = <<s, "collect">>
    /\ idx <= NumTasks(s)
    /\ status[s][idx] = "failed"
    /\ idx' = idx + 1
    /\ UNCHANGED <<config, pc, status, result, collected, cancelPtr, responses, scores,
                   metricIdx, service, services, cbCalls, metricCalls, overtaken, run, error>>

\* Faulty variant: the exception of whichever future failed is raised, as with
\* as_completed, whatever its position
CollectRaiseAny(s) ==
    /\ pc = <<s, "collect">>
    /\ idx <= NumTasks(s)
    /\ \E j \in DOMAIN status[s] :
          /\ status[s][j] = "failed"
          /\ error' = result[s][j]
    /\ cancelPtr' = NumTasks(s)
    /\ pc' = <<s, "cancel">>
    /\ UNCHANGED <<config, status, result, collected, idx, responses, scores,
                   metricIdx, service, services, cbCalls, metricCalls, overtaken, run>>

\* The future at position idx holds an exception: result() raises it, and the
\* iterator's finally clause starts cancelling the futures not yet taken
CollectRaise(s) ==
    /\ pc = <<s, "collect">>
    /\ idx <= NumTasks(s)
    /\ status[s][idx] = "failed"
    /\ error' = result[s][idx]
    /\ cancelPtr' = NumTasks(s)
    /\ pc' = <<s, "cancel">>
    /\ UNCHANGED <<config, status, result, collected, idx, responses, scores,
                   metricIdx, service, services, cbCalls, metricCalls, overtaken, run>>

\* future.cancel() on the remaining futures, last one first: a future still
\* queued is cancelled, a running or finished one is left alone
Cancel(s) ==
    /\ pc = <<s, "cancel">>
    /\ IF cancelPtr > idx
       THEN /\ status' = [status EXCEPT ![s][cancelPtr] =
                              IF @ = "pending" THEN "cancelled" ELSE @]
            /\ cancelPtr' = cancelPtr - 1
            /\ pc' = pc
       ELSE /\ pc' = <<s, "shutdown">>
            /\ UNCHANGED <<status, cancelPtr>>
    /\ UNCHANGED <<config, result, collected, idx, responses, scores, metricIdx,
                   service, services, cbCalls, metricCalls, overtaken, run, error>>

\* Every result was taken: the list is complete and assigned
CollectEnd(s) ==
    /\ pc = <<s, "collect">>
    /\ idx = NumTasks(s) + 1
    /\ pc' = <<s, "shutdown">>
    /\ UNCHANGED <<config, status, result, collected, idx, cancelPtr, responses,
                   scores, metricIdx, service, services, cbCalls, metricCalls,
                   overtaken, run, error>>

\* The worker threads have all exited: nothing is queued or running
PoolIdle(s) == \A i \in DOMAIN status[s] : status[s][i] \notin {"pending", "running", "hung"}

\* The with block's exit, executor.shutdown(wait=True), lets the call go on
ShutdownDone(s) == PoolIdle(s)

\* Faulty variant: score goes on to score_run with the responses it has, exception or not
GenShutdownIgnoreError ==
    /\ pc = <<"gen", "shutdown">>
    /\ ShutdownDone("gen")
    /\ pc' = <<"score", "map">>
    /\ responses' = collected["gen"]
    /\ UNCHANGED <<config, status, result, collected, idx, cancelPtr, scores,
                   metricIdx, service, services, cbCalls, metricCalls, overtaken, run, error>>

\* Leaving score's with block: the exception propagates, or score_run is called
GenShutdown ==
    /\ pc = <<"gen", "shutdown">>
    /\ ShutdownDone("gen")
    /\ IF error # NoError
       THEN /\ pc' = <<"main", "raised">>
            /\ UNCHANGED responses
       ELSE /\ pc' = <<"score", "map">>
            /\ responses' = collected["gen"]
    /\ UNCHANGED <<config, status, result, collected, idx, cancelPtr, scores,
                   metricIdx, service, services, cbCalls, metricCalls, overtaken, run, error>>

\* Faulty variant: score_run goes on to the aggregation with the RunData it has,
\* exception or not
ScoreShutdownIgnoreError ==
    /\ pc = <<"score", "shutdown">>
    /\ ShutdownDone("score")
    /\ pc' = <<"main", "aggregate">>
    /\ UNCHANGED <<config, status, result, collected, idx, cancelPtr, responses,
                   scores, metricIdx, service, services, cbCalls, metricCalls,
                   overtaken, run, error>>

\* Leaving score_run's with block
ScoreShutdown ==
    /\ pc = <<"score", "shutdown">>
    /\ ShutdownDone("score")
    /\ pc' = IF error # NoError THEN <<"main", "raised">> ELSE <<"main", "aggregate">>
    /\ UNCHANGED <<config, status, result, collected, idx, cancelPtr, responses,
                   scores, metricIdx, service, services, cbCalls, metricCalls,
                   overtaken, run, error>>

\* run_data as score_run holds it after the with block
run_data == collected["score"]

\* The two loops, the dict comprehension and the return of score_run
Aggregate ==
    /\ pc = <<"main", "aggregate">>
    /\ LET acc == Accumulate(run_data, Len(run_data))
       IN  IF DivisionByZero(acc)
           THEN /\ error' = [kind |-> "ZeroDivisionError"]
                /\ pc' = <<"main", "raised">>
                /\ UNCHANGED run
           ELSE /\ run' = Run(OverallScores(acc), run_data)
                /\ pc' = <<"main", "done">>
                /\ UNCHANGED error
    /\ UNCHANGED <<config, status, result, collected, idx, cancelPtr, responses,
                   scores, metricIdx, service, services, cbCalls, metricCalls, overtaken>>

\* --------------------------------------------------------- the worker threads
\* Faulty variant: create_response calls the callback twice, once for the answer
\* and once for the context list
StartCallbackTwice(i) ==
    /\ CanStart("gen", i)
    /\ status' = [status EXCEPT !["gen"][i] = "running"]
    /\ cbCalls' = [cbCalls EXCEPT ![i] = @ + 2]
    /\ UNCHANGED <<config, pc, result, collected, idx, cancelPtr, responses,
                   scores, metricIdx, service, services, metricCalls, overtaken, run, error>>

\* A worker starts create_response(item) for item i and calls the callback
StartCallback(i) ==
    /\ CanStart("gen", i)
    /\ status' = [status EXCEPT !["gen"][i] = "running"]
    /\ cbCalls' = [cbCalls EXCEPT ![i] = @ + 1]
    /\ UNCHANGED <<config, pc, result, collected, idx, cancelPtr, responses,
                   scores, metricIdx, service, services, metricCalls, overtaken, run, error>>

\* Whether a task of the stage that was queued before task i is still running
Overtakes(s, i) == \E j \in 1..(i - 1) : status[s][j] = "running"

\* The callback returns, and create_response returns the LLMResponse; or it raises
FinishCallback(i) ==
    /\ i \in DOMAIN status["gen"]
    /\ status["gen"][i] = "running"
    /\ \E o \in CallbackOutcomes(items[i].question) :
          IF o.kind = "return"
          THEN /\ result' = [result EXCEPT !["gen"][i] =
                                LLMResponse(o.answer, o.context, items[i])]
               /\ status' = [status EXCEPT !["gen"][i] = "done"]
          ELSE /\ result' = [result EXCEPT !["gen"][i] =
                                [kind |-> "CallbackError", item |-> i]]
               /\ status' = [status EXCEPT !["gen"][i] = "failed"]
    /\ overtaken' = [overtaken EXCEPT !["gen"] = @ \/ Overtakes("gen", i)]
    /\ UNCHANGED <<config, pc, collected, idx, cancelPtr, responses, scores,
                   metricIdx, service, services, cbCalls, metricCalls, run, error>>

\* OpenAIService(self.model_evaluator), constructed by the task scoring response i
\* (an instance is identified by the task that constructed it and by how many
\* that task had constructed before)
NewService(i) == [model |-> model_evaluator, task |-> i, serial |-> Len(services[i]) + 1]

\* Faulty variant: one scores dict shared by every task
SharedScores(i) == 1

\* scores is a local of _score_item_rundata: each task has its own
ScoresOf(i) == i

\* A worker starts _score_item_rundata(response) for response i
StartScoring(i) ==
    /\ CanStart("score", i)
    /\ status' = [status EXCEPT !["score"][i] = "running"]
    /\ scores' = [scores EXCEPT ![ScoresOf(i)] = EmptyDict]
    /\ services' = [services EXCEPT ![i] = Append(@, NewService(i))]
    /\ service' = [service EXCEPT ![i] = NewService(i)]
    /\ metricIdx' = [metricIdx EXCEPT ![i] = 1]
    /\ UNCHANGED <<config, pc, result, collected, idx, cancelPtr, responses,
                   cbCalls, metricCalls, overtaken, run, error>>

\* Faulty variant: every task uses the service of the first task
SharedService(i) == service[1]

\* The service the task scoring response i hands to metric.score
ServiceFor(i) == service[i]

\* Faulty variant: a metric that raises is left out of scores and the loop goes on
MetricScoreSkipFailures(i) ==
    /\ i \in DOMAIN status["score"]
    /\ status["score"][i] = "running"
    /\ metricIdx[i] <= Len(metrics)
    /\ \E o \in MetricOutcomes :
          /\ metricCalls' = [metricCalls EXCEPT ![i] =
                Append(@, [metric |-> metricIdx[i], service |-> ServiceFor(i), outcome |-> o])]
          /\ scores' = IF o.kind = "return"
                       THEN [scores EXCEPT ![ScoresOf(i)] =
                                DictSet(@, metrics[metricIdx[i]], o.score)]
                       ELSE scores
          /\ metricIdx' = [metricIdx EXCEPT ![i] = @ + 1]
    /\ UNCHANGED <<config, pc, status, result, overtaken, collected, idx, cancelPtr,
                   responses, service, services, cbCalls, run, error>>

\* One turn of the loop over self.metrics: metric.score(response, openai_service)
\* returns a score that is stored under the metric's name, or raises
MetricScore(i) ==
    /\ i \in DOMAIN status["score"]
    /\ status["score"][i] = "running"
    /\ metricIdx[i] <= Len(metrics)
    /\ \E o \in MetricOutcomes :
          /\ metricCalls' = [metricCalls EXCEPT ![i] =
                Append(@, [metric |-> metricIdx[i], service |-> ServiceFor(i), outcome |-> o])]
          /\ IF o.kind = "return"
             THEN /\ scores' = [scores EXCEPT ![ScoresOf(i)] =
                                   DictSet(@, metrics[metricIdx[i]], o.score)]
                  /\ metricIdx' = [metricIdx EXCEPT ![i] = @ + 1]
                  /\ UNCHANGED <<status, result, overtaken>>
             ELSE /\ result' = [result EXCEPT !["score"][i] =
                                   [kind |-> "MetricError", item |-> i, metric |-> metricIdx[i]]]
                  /\ status' = [status EXCEPT !["score"][i] = "failed"]
                  /\ overtaken' = [overtaken EXCEPT !["score"] = @ \/ Overtakes("score", i)]
                  /\ UNCHANGED <<scores, metricIdx>>
    /\ UNCHANGED <<config, pc, collected, idx, cancelPtr, responses, service,
                   services, cbCalls, run, error>>

\* Faulty variant: the task empties the context list of the response it scored
ReturnRunDataConsumingContext(i) ==
    /\ i \in DOMAIN status["score"]
    /\ status["score"][i] = "running"
    /\ metricIdx[i] > Len(metrics)
    /\ result' = [result EXCEPT !["score"][i] = RunData(scores[ScoresOf(i)], responses[i])]
    /\ status' = [status EXCEPT !["score"][i] = "done"]
    /\ overtaken' = [overtaken EXCEPT !["score"] = @ \/ Overtakes("score", i)]
    /\ responses' = [responses EXCEPT ![i].llm_context_list = <<>>]
    /\ UNCHANGED <<config, pc, collected, idx, cancelPtr, scores,
                   metricIdx, service, services, cbCalls, metricCalls, run, error>>

\* The loop is over: _score_item_rundata returns the RunData
ReturnRunData(i) ==
    /\ i \in DOMAIN status["score"]
    /\ status["score"][i] = "running"
    /\ metricIdx[i] > Len(metrics)
    /\ result' = [result EXCEPT !["score"][i] = RunData(scores[ScoresOf(i)], responses[i])]
    /\ status' = [status EXCEPT !["score"][i] = "done"]
    /\ overtaken' = [overtaken EXCEPT !["score"] = @ \/ Overtakes("score", i)]
    /\ UNCHANGED <<config, pc, collected, idx, cancelPtr, responses, scores,
                   metricIdx, service, services, cbCalls, metricCalls, run, error>>

\* The call task i of stage s is in (the callback, or the metric.score the
\* loop has reached) never returns: the task keeps its worker thread for ever
Hang(s, i) ==
    /\ i \in DOMAIN status[s]
    /\ status[s][i] = "running"
    /\ s = "score" => metricIdx[i] <= Len(metrics)
    /\ status' = [status EXCEPT ![s][i] = "hung"]
    /\ UNCHANGED <<config, pc, result, collected, idx, cancelPtr, responses, scores,
                   metricIdx, service, services, cbCalls, metricCalls, overtaken, run, error>>

\* A step of the worker running the task of item or response i
WorkerStep(i) ==
    \/ StartCallback(i)
    \/ FinishCallback(i)
    \/ StartScoring(i)
    \/ MetricScore(i)
    \/ ReturnRunData(i)

\* A step of the thread that called score or score_run, in a with block
CallerStep ==
    \/ \E s \in Stages : Map(s) \/ Collect(s) \/ CollectRaise(s) \/ Cancel(s) \/ CollectEnd(s)
    \/ GenShutdown
    \/ ScoreShutdown

\* The loops and the comprehension that follow score_run's with block are over
\* finite data: the calling thread does not stay in them for ever (it leaves
\* them by the step Aggregate, the only step enabled there)
AggregateEnds == []<>(pc # <<"main", "aggregate">>)

\* The steps of score up to its call of score_run
ScoreNext ==
    \/ Map("gen")
    \/ Collect("gen")
    \/ CollectRaise("gen")
    \/ Cancel("gen")
    \/ CollectEnd("gen")
    \/ GenShutdown
    \/ \E i \in 1..MaxItems : StartCallback(i)
    \/ \E i \in 1..MaxItems : FinishCallback(i)

\* The steps of score_run
ScoreRunNext ==
    \/ Map("score")
    \/ Collect("score")
    \/ CollectRaise("score")
    \/ Cancel("score")
    \/ CollectEnd("score")
    \/ ScoreShutdown
    \/ Aggregate
    \/ \E i \in 1..MaxItems : StartScoring(i)
    \/ \E i \in 1..MaxItems : MetricScore(i)
    \/ \E i \in 1..MaxItems : ReturnRunData(i)

Next == ScoreNext \/ ScoreRunNext

\* score or score_run, with metrics returning any of the scores
Spec == Init /\ [][Next]_vars

\* score or score_run, with metrics that return 1.0 or raise
SpecPool == InitPool /\ [][Next]_vars

\* score_run on its own, with metrics that return 0.5 or 1.0 or raise
SpecRun == InitRun /\ [][ScoreRunNext]_vars

\* score_run on its own, with one metric that returns 0.25, 0.5 or 1.0 or raises
SpecAgg == InitAgg /\ [][ScoreRunNext]_vars

\* Every thread that can take a step eventually takes one: the calling thread,
\* and the worker of each task, whose call returns or raises unless it hangs
Fairness ==
    /\ WF_vars(CallerStep)
    /\ \A i \in 1..MaxItems : WF_vars(WorkerStep(i))
    /\ AggregateEnds

\* score or score_run with calls that return or raise, fairly scheduled
SpecFair == InitPool /\ [][Next]_vars /\ Fairness

\* The steps of score and score_run when a callback or a metric may hang
HangNext ==
    \/ Next
    \/ \E i \in 1..MaxItems : Hang("gen", i)
    \/ \E i \in 1..MaxItems : Hang("score", i)

\* score or score_run with calls that return, raise or hang, fairly scheduled
SpecHang == InitHang /\ [][HangNext]_vars /\ Fairness

\* ------------------------------------------------------------------ claims
Done == pc = <<"main", "done">>
Raised == pc = <<"main", "raised">>

\* The names of the configured metrics
ConfiguredNames == { metrics[k] : k \in 1..Len(metrics) }

\* The sum of scores[m] over the first n entries of data that contain key m,
\* added in the order of data
RECURSIVE MetricSum(_, _, _)
MetricSum(m, data, n) ==
    IF n = 0 THEN 0
    ELSE IF m \in DOMAIN data[n].scores
         THEN FloatAdd(MetricSum(m, data, n - 1), data[n].scores[m])
         ELSE MetricSum(m, data, n - 1)

\* The number of the first n entries of data that contain key m
MetricCount(m, data, n) == Cardinality({ j \in 1..n : m \in DOMAIN data[j].scores })

\* C1: when score_run returns a Run, overall_scores has exactly the metric
\* names found in run_data, and overall_scores[m] is the sum of scores[m] over
\* the RunData entries that contain m divided by the number of those entries,
\* each metric name on its own.
C1_OverallIsPerMetricMean ==
    Done =>
        LET data == run.run_data
            n == Len(data)
        IN  /\ DOMAIN run.overall_scores = UNION { DOMAIN data[j].scores : j \in 1..n }
            /\ \A m \in DOMAIN run.overall_scores :
                  /\ MetricCount(m, data, n) > 0
                  /\ run.overall_scores[m] =
                        FloatDiv(MetricSum(m, data, n), MetricCount(m, data, n))

\* Two items, A scoring 0.5 and 1.0, B scoring 1.0 and 1.0: A = 0.75, B = 1.0
C1_Witness ==
    /\ Done
    /\ Len(run.run_data) = 2
    /\ run.run_data[1].scores = [A |-> 16, B |-> 32]
    /\ run.run_data[2].scores = [A |-> 32, B |-> 32]
    /\ run.overall_scores = [A |-> 24, B |-> 32]

\* What the callback returns for a question when it returns
CallbackReturn(question) == CHOOSE o \in CallbackOutcomes(question) : o.kind = "return"

\* C2: in score, the responses handed to the scoring stage are as many as the
\* items, and the i-th is bound to the i-th item and carries the answer and the
\* context list the callback returned for that item's question, whatever the
\* callback parallelism and the order in which the callbacks finished.
C2_ResponsesInInputOrder ==
    (entry = "score" /\ pc[1] = "score") =>
        /\ Len(responses) = Len(items)
        /\ \A i \in 1..Len(items) :
              /\ responses[i].benchmark_item = items[i]
              /\ responses[i].llm_answer = CallbackReturn(items[i].question).answer
              /\ responses[i].llm_context_list = CallbackReturn(items[i].question).context

\* Three items generated with two workers, a later callback finishing before an
\* earlier one, handed to score_run
C2_Witness ==
    /\ entry = "score"
    /\ pc = <<"score", "map">>
    /\ callback_parallelism >= 2
    /\ overtaken["gen"]
    /\ Len(items) = 3
    /\ Len(responses) = 3

\* The scores dict a sequential run builds for response i from the scores the
\* metrics returned for it
RECURSIVE SequentialScores(_, _)
SequentialScores(i, k) ==
    IF k = 0 THEN EmptyDict
    ELSE DictSet(SequentialScores(i, k - 1), metrics[metricCalls[i][k].metric],
                 metricCalls[i][k].outcome.score)

\* The run_data of the sequential run (parallelism = 1): the responses scored
\* one after the other in input order
SequentialRunData ==
    [i \in 1..Len(responses) |-> RunData(SequentialScores(i, Len(metricCalls[i])), responses[i])]

\* C3: with the same responses and the same metric scores, score_run returns
\* the overall_scores of the sequential run, for any parallelism and any
\* interleaving of the scoring tasks.
C3_ParallelAgreesWithSequential ==
    Done =>
        run.overall_scores =
            OverallScores(Accumulate(SequentialRunData, Len(SequentialRunData)))

\* A run of three responses on two workers in which a later response was
\* scored before an earlier one
C3_Witness ==
    /\ Done
    /\ scoring_parallelism >= 2
    /\ overtaken["score"]
    /\ Len(run.run_data) = 3
    /\ Len(metrics) = 2

\* The tasks of the scoring stage that have started
Started(i) == i \in DOMAIN status["score"] /\ status["score"][i] \in {"running", "done", "failed"}

\* C4: each scored response gets exactly one new OpenAIService, built with the
\* scorer's model_evaluator; every metric call for the response uses it, and no
\* metric call uses the service of another response.
C4_OneServicePerResponse ==
    \A i \in 1..Len(items) :
        /\ Len(services[i]) = (IF Started(i) THEN 1 ELSE 0)
        /\ \A n \in 1..Len(services[i]) : services[i][n].model = model_evaluator
        /\ \A c \in 1..Len(metricCalls[i]) :
              /\ Len(services[i]) = 1
              /\ metricCalls[i][c].service = services[i][1]
              /\ \A j \in (1..Len(items)) \ {i} :
                    \A n \in 1..Len(services[j]) : metricCalls[i][c].service # services[j][n]

\* Two responses scored at the same time, each with a metric call made
C4_Witness ==
    /\ Len(items) >= 2
    /\ status["score"] # <<>>
    /\ status["score"][1] = "running"
    /\ status["score"][2] = "running"
    /\ Len(metricCalls[1]) >= 1
    /\ Len(metricCalls[2]) >= 1

\* C5: the scoring tasks in flight are never more than the scoring
\* parallelism, and the callback invocations in flight never more than
\* callback_parallelism; with a parallelism of 1 at most one runs at a time.
C5_InFlightBounded ==
    /\ Cardinality(InFlight("score")) <= scoring_parallelism
    /\ Cardinality(InFlight("gen")) <= callback_parallelism

\* Two scoring tasks in flight on two workers while a third response waits
C5_Witness ==
    /\ scoring_parallelism = 2
    /\ Cardinality(InFlight("score")) = 2
    /\ \E i \in DOMAIN status["score"] : status["score"][i] = "pending"

\* The callback raised for some item
CallbackRaised == \E i \in DOMAIN status["gen"] : status["gen"][i] = "failed"

\* C6: once the callback has raised for an item, score returns no Run and ends
\* only by raising that callback's error; score_run is never entered: no
\* OpenAIService is constructed and no metric is called.
C6_CallbackFailureAborts ==
    CallbackRaised =>
        /\ run = NoRun
        /\ pc[1] = "gen" \/ Raised
        /\ status["score"] = <<>>
        /\ \A i \in 1..Len(items) : services[i] = <<>> /\ metricCalls[i] = <<>>
        /\ Raised => /\ error.kind = "CallbackError"
                     /\ status["gen"][error.item] = "failed"
        /\ Raised \/ ENABLED Next

\* The callback raised on the second of three items and score has raised
C6_Witness ==
    /\ Raised
    /\ entry = "score"
    /\ Len(items) = 3
    /\ status["gen"][1] = "done"
    /\ status["gen"][2] = "failed"

\* C7: scoring an empty input returns a Run with no overall score, no RunData
\* and no id, whatever metrics are configured; it never raises, and calls no
\* callback, builds no OpenAIService and calls no metric.
C7_EmptyInput ==
    Len(items) = 0 =>
        /\ ~Raised
        /\ error = NoError
        /\ Done => /\ run.overall_scores = EmptyDict
                   /\ run.run_data = <<>>
                   /\ run.id = "None"
        /\ Done \/ ENABLED Next
        /\ DOMAIN cbCalls = {} /\ DOMAIN services = {} /\ DOMAIN metricCalls = {}
        /\ \A s \in Stages : status[s] = <<>>

\* score on an empty benchmark with two metrics configured has returned
C7_Witness ==
    /\ Done
    /\ entry = "score"
    /\ Len(items) = 0
    /\ metrics = <<"A", "B">>
    /\ run = Run(EmptyDict, <<>>)

\* C8: the aggregation never divides by zero, and every metric name in the
\* overall_scores of a returned Run is in the scores of at least one RunData:
\* a name nothing was observed for is absent.
C8_NoZeroCount ==
    /\ error.kind # "ZeroDivisionError"
    /\ Done => \A m \in DOMAIN run.overall_scores :
                  \E j \in 1..Len(run.run_data) : m \in DOMAIN run.run_data[j].scores

\* score_run returned for metrics that observed nothing: they are absent
C8_Witness ==
    /\ Done
    /\ entry = "score_run"
    /\ metrics = <<"A", "B">>
    /\ Len(run.run_data) = 0
    /\ DOMAIN run.overall_scores = {}

\* C9: in a returned Run the keys of every RunData's scores are the names of
\* the configured metrics, there is one RunData per response, and for a
\* non-empty response list the keys of overall_scores are those names too.
C9_AllMetricsScored ==
    Done =>
        /\ Len(run.run_data) = Len(responses)
        /\ \A j \in 1..Len(run.run_data) : DOMAIN run.run_data[j].scores = ConfiguredNames
        /\ Len(run.run_data) > 0 => DOMAIN run.overall_scores = ConfiguredNames

\* Three responses scored by two metrics
C9_Witness ==
    /\ Done
    /\ metrics = <<"A", "B">>
    /\ Len(run.run_data) = 3
    /\ DOMAIN run.overall_scores = {"A", "B"}

\* A metric raised while scoring some response
MetricRaised ==
    \E i \in 1..Len(items) : \E c \in 1..Len(metricCalls[i]) :
        metricCalls[i][c].outcome.kind = "raise"

\* C10: once a metric has raised for a response, score_run (and score) returns
\* no Run and ends only by raising a metric's error; the failing response
\* yields no RunData, and the other responses' scores are not returned.
C10_MetricFailureAborts ==
    MetricRaised =>
        /\ run = NoRun
        /\ pc[1] = "score" \/ Raised
        /\ Raised => /\ error.kind = "MetricError"
                     /\ status["score"][error.item] = "failed"
        /\ Raised \/ ENABLED Next
        /\ \A i \in 1..Len(items) :
              (\E c \in 1..Len(metricCalls[i]) : metricCalls[i][c].outcome.kind = "raise")
                  => /\ status["score"][i] = "failed"
                     /\ result["score"][i].kind = "MetricError"

\* A metric raised for the second response after the first was scored, and
\* score has raised
C10_Witness ==
    /\ Raised
    /\ entry = "score"
    /\ Len(items) >= 2
    /\ status["score"] # <<>>
    /\ status["score"][1] = "done"
    /\ status["score"][2] = "failed"

\* The responses score_run works on: the caller's, or the ones score generated
InputResponses ==
    IF entry = "score_run" THEN CallerResponses(items)
    ELSE [i \in 1..Len(items) |->
            LLMResponse(CallbackReturn(items[i].question).answer,
                        CallbackReturn(items[i].question).context, items[i])]

\* What a step leaves alone: the scorer's metrics and model, the benchmark
\* items, the responses once score_run has them and the responses already
\* generated; and a worker's step writes nothing of another task and nothing
\* the calling thread owns
FrameStep ==
    /\ metrics' = metrics
    /\ model_evaluator' = model_evaluator
    /\ items' = items
    /\ pc[1] \in {"score", "main"} => responses' = responses
    /\ \A i \in DOMAIN status["gen"] :
          status["gen"][i] = "done" => result'["gen"][i] = result["gen"][i]
    /\ \A i \in 1..Len(items) :
          WorkerStep(i) =>
              /\ \A j \in (1..Len(items)) \ {i} :
                    /\ scores'[j] = scores[j]
                    /\ \A s \in Stages :
                          j \in DOMAIN status[s] =>
                              /\ status'[s][j] = status[s][j]
                              /\ result'[s][j] = result[s][j]
              /\ UNCHANGED <<responses, collected, run, error, pc, idx, cancelPtr>>

\* C11: throughout a score or score_run call, under any interleaving, the
\* scorer's metric list and model identifier are unchanged and the benchmark
\* items and the responses are never mutated; a worker writes only its own
\* task's score map and result.
C11_InputsReadOnly == [][FrameStep]_vars

\* score has returned after scoring three responses on two workers out of
\* order, and score_run's responses are still the ones generated
C11_Witness ==
    /\ Done
    /\ entry = "score"
    /\ scoring_parallelism = 2
    /\ overtaken["score"]
    /\ Len(items) = 3
    /\ metrics = <<"A", "B">>
    /\ responses = InputResponses
    /\ \A i \in 1..3 : scores[i] = [A |-> 32, B |-> 32]

\* The tasks of stage s whose call hangs
Hung(s) == { i \in DOMAIN status[s] : status[s][i] = "hung" }

\* Every task of stage s but h has run and returned
OthersReturned(s, h) == \A i \in DOMAIN status[s] \ {h} : status[s][i] = "done"

\* A call of another task of stage s than h raised or hangs as well
OtherCallLost(s, h) == \E i \in DOMAIN status[s] \ {h} : status[s][i] \in {"failed", "hung"}

\* Stage s is blocked: a task is queued and no worker of the pool can take a step
Blocked(s) ==
    /\ \E i \in DOMAIN status[s] : status[s][i] = "pending"
    /\ ~ENABLED (\E i \in 1..MaxItems : WorkerStep(i))

\* A hung call stalls its own worker only, and the call never returns
HangKeepsCaller ==
    /\ \A s \in Stages : Blocked(s) => Cardinality(Hung(s)) = MaxWorkers(s)
    /\ (\E s \in Stages : Hung(s) # {}) => ~Done /\ ~Raised

\* Beside a hung call in a pool of two or more workers, every other task of the
\* stage has returned, unless another call raised or hangs too
HangStallsItsWorkerOnly ==
    \A s \in Stages : \A h \in Hung(s) :
        MaxWorkers(s) >= 2 => (OthersReturned(s, h) \/ OtherCallLost(s, h))

\* C12: in a stage whose pool has two or more workers, when the call of one
\* item hangs for ever and every other call returns, every other item of the
\* stage is eventually started and completed; a stage is blocked only when
\* hanging calls occupy all its workers; and score or score_run never returns
\* while a call hangs.
C12_HangStallsOneWorker == []HangKeepsCaller /\ <>[]HangStallsItsWorkerOnly

\* The callback hangs on the first of three items and the other two have been
\* generated by the second worker; score has not returned
C12_Witness ==
    /\ entry = "score"
    /\ callback_parallelism = 2
    /\ status["gen"] = <<"hung", "done", "done">>
    /\ pc = <<"gen", "collect">>
    /\ idx = 1

\* Every task of stage s has run and returned
AllReturned(s) == \A i \in DOMAIN status[s] : status[s][i] = "done"

\* The scoring stage has begun: a future of it exists, or a service or a metric call
ScoringBegun ==
    \/ status["score"] # <<>>
    \/ \E i \in 1..Len(items) : services[i] # <<>> \/ metricCalls[i] # <<>>

\* The aggregation has begun
AggregationBegun == pc = <<"main", "aggregate">> \/ Done

\* C13: the stages of score are strictly sequenced: no judge service is
\* constructed and no metric is invoked before every callback invocation has
\* completed, the aggregation starts only after every scoring task has
\* completed, and a callback invocation and a metric invocation are never in
\* flight at the same time.
C13_StagesSequenced ==
    /\ (entry = "score" /\ ScoringBegun) =>
            /\ Len(status["gen"]) = Len(items)
            /\ AllReturned("gen")
    /\ AggregationBegun =>
            /\ Len(status["score"]) = Len(responses)
            /\ AllReturned("score")
    /\ InFlight("gen") = {} \/ InFlight("score") = {}
    /\ \A i \in 1..Len(items) : Len(metricCalls[i]) > 0 => InFlight("gen") = {}

\* score is about to aggregate after both stages ran three tasks on two
\* workers, a later task finishing before an earlier one in each stage
C13_Witness ==
    /\ pc = <<"main", "aggregate">>
    /\ entry = "score"
    /\ Len(items) = 3
    /\ overtaken["gen"]
    /\ overtaken["score"]
    /\ metrics = <<"A", "B">>

\* C14: the run_data of the Run score_run returns keeps the order of the
\* responses: run_data[i] is the RunData produced from responses[i], for any
\* parallelism and any order in which the scoring tasks complete.
C14_RunDataInInputOrder ==
    Done =>
        /\ Len(run.run_data) = Len(responses)
        /\ \A i \in 1..Len(responses) :
              /\ run.run_data[i] = result["score"][i]
              /\ run.run_data[i] =
                    RunData(SequentialScores(i, Len(metricCalls[i])), responses[i])

\* Three responses with different scores, scored on two workers, a later one
\* finishing before an earlier one
C14_Witness ==
    /\ Done
    /\ scoring_parallelism = 2
    /\ overtaken["score"]
    /\ metrics = <<"A">>
    /\ Len(run.run_data) = 3
    /\ run.run_data[1].scores = [A |-> 16]
    /\ run.run_data[2].scores = [A |-> 32]
    /\ run.run_data[3].scores = [A |-> 16]
    /\ \A i \in 1..3 : run.run_data[i].question = <<"q", i>>

\* Two configured metrics share a name
SharedName == \E j, k \in 1..Len(metrics) : j < k /\ metrics[j] = metrics[k]

\* The position of the last configured metric named m
LastNamed(m) == SetMax({ k \in 1..Len(metrics) : metrics[k] = m })

\* The sum, in the order of the responses, of the scores the last metric named
\* m returned for the first n responses
RECURSIVE LaterSum(_, _)
LaterSum(m, n) ==
    IF n = 0 THEN 0
    ELSE FloatAdd(LaterSum(m, n - 1), metricCalls[n][LastNamed(m)].outcome.score)

\* C15: when two configured metrics share a name, both are invoked for every
\* response, each RunData holds one entry under that name, the score of the
\* metric that comes later in the list, and overall_scores[name] is the mean
\* of the later metric's scores, counted once per response.
C15_LastMetricWins ==
    (Done /\ SharedName) =>
        /\ \A i \in 1..Len(responses) :
              /\ Len(metricCalls[i]) = Len(metrics)
              /\ \A k \in 1..Len(metrics) : metricCalls[i][k].metric = k
              /\ DOMAIN run.run_data[i].scores = ConfiguredNames
              /\ \A m \in ConfiguredNames :
                    run.run_data[i].scores[m] = metricCalls[i][LastNamed(m)].outcome.score
        /\ Len(responses) > 0 =>
              /\ DOMAIN run.overall_scores = ConfiguredNames
              /\ \A m \in ConfiguredNames :
                    run.overall_scores[m] =
                        FloatDiv(LaterSum(m, Len(responses)), Len(responses))

\* Two metrics named A: for the first response they return 0.5 then 1.0, for
\* the second 1.0 then 0.5; the RunData hold 1.0 and 0.5, the mean is 0.75
C15_Witness ==
    /\ Done
    /\ metrics = <<"A", "A">>
    /\ Len(responses) = 2
    /\ metricCalls[1][1].outcome.score = 16 /\ metricCalls[1][2].outcome.score = 32
    /\ metricCalls[2][1].outcome.score = 32 /\ metricCalls[2][2].outcome.score = 16
    /\ run.run_data[1].scores = [A |-> 32]
    /\ run.run_data[2].scores = [A |-> 16]
    /\ run.overall_scores = [A |-> 24]

\* The orders a list of n responses can be given in
Orders(n) == { f \in [1..n -> 1..n] : \A w \in 1..n : \E v \in 1..n : f[v] = w }

\* The run_data score_run builds when the responses are given in the order f,
\* each response receiving the scores it received in this run
Reordered(data, f) == [i \in 1..Len(data) |-> data[f[i]]]

\* The overall_scores score_run computes from the run_data data
OverallOf(data) == OverallScores(Accumulate(data, Len(data)))

\* Every addition the loop makes for metric m over the first n entries of data
\* is exact: the running total it produces needs no rounding
RECURSIVE ExactSums(_, _, _)
ExactSums(m, data, n) ==
    \/ n = 0
    \/ /\ ExactSums(m, data, n - 1)
       /\ m \in DOMAIN data[n].scores =>
             MetricSum(m, data, n - 1) + data[n].scores[m] \in Floats

\* C16 as stated: for any response list and any permutation of it, each
\* response receiving the same scores, score_run returns the same
\* overall_scores.
C16_OrderIndependent ==
    Done => \A f \in Orders(Len(run.run_data)) :
                OverallOf(Reordered(run.run_data, f)) = run.overall_scores

\* C16 as amended: for any permutation of the response list, each response
\* receiving the same scores, score_run returns an overall_scores with the
\* same metric names, and with the same value for every metric whose running
\* totals are exact (no float addition rounds) in both orders.
C16_OrderIndependentWhenExact ==
    Done => \A f \in Orders(Len(run.run_data)) :
                LET data == run.run_data
                    other == Reordered(data, f)
                IN  /\ DOMAIN OverallOf(other) = DOMAIN run.overall_scores
                    /\ \A m \in DOMAIN run.overall_scores :
                          (ExactSums(m, data, Len(data)) /\ ExactSums(m, other, Len(other)))
                              => OverallOf(other)[m] = run.overall_scores[m]

\* Three responses scored 0.5, 1.0 and 0.5: the totals are exact in every
\* order, and every order gives the same mean
C16_Witness ==
    /\ Done
    /\ Len(run.run_data) = 3
    /\ run.run_data[1].scores = [A |-> 16]
    /\ run.run_data[2].scores = [A |-> 32]
    /\ run.run_data[3].scores = [A |-> 16]
    /\ \A f \in Orders(3) : ExactSums("A", Reordered(run.run_data, f), 3)
    /\ \A f \in Orders(3) : OverallOf(Reordered(run.run_data, f)) = run.overall_scores

\* C17: on a run that returns a Run the callback was invoked exactly once per
\* benchmark item, each configured metric exactly once per response, and
\* run_data has exactly one RunData per response, with the question and the
\* reference answer of the response's BenchmarkItem and the answer and context
\* list of the response; one item and one metric that always returns 1.0 give
\* overall_scores = {name: 1.0} and one RunData with scores[name] = 1.0.
C17_ExactlyOnce ==
    Done =>
        /\ entry = "score" =>
              /\ Len(responses) = Len(items)
              /\ \A i \in 1..Len(items) :
                    /\ cbCalls[i] = 1
                    /\ responses[i].benchmark_item = items[i]
        /\ entry = "score_run" => \A i \in 1..Len(items) : cbCalls[i] = 0
        /\ Len(run.run_data) = Len(responses)
        /\ \A i \in 1..Len(responses) :
              /\ Len(metricCalls[i]) = Len(metrics)
              /\ \A k \in 1..Len(metrics) :
                    /\ metricCalls[i][k].metric = k
                    /\ metricCalls[i][k].outcome.kind = "return"
              /\ run.run_data[i].question = responses[i].benchmark_item.question
              /\ run.run_data[i].reference_answer = responses[i].benchmark_item.answer
              /\ run.run_data[i].llm_answer = responses[i].llm_answer
              /\ run.run_data[i].llm_context_list = responses[i].llm_context_list
        /\ (Len(responses) = 1 /\ Len(metrics) = 1 /\ scoreRange = AlwaysOne) =>
              /\ run.overall_scores = DictSet(EmptyDict, metrics[1], 32)
              /\ run.run_data[1].scores = DictSet(EmptyDict, metrics[1], 32)

\* score has returned for one item and one metric that always returns 1.0
C17_Witness ==
    /\ Done
    /\ entry = "score"
    /\ Len(items) = 1
    /\ metrics = <<"A">>
    /\ cbCalls[1] = 1
    /\ Len(metricCalls[1]) = 1
    /\ Len(run.run_data) = 1
    /\ run.run_data[1].scores = [A |-> 32]
    /\ run.run_data[1].question = <<"q", 1>>
    /\ run.run_data[1].llm_answer = <<"ans", 1>>
    /\ run.overall_scores = [A |-> 32]

\* score or score_run has finished: it returned a Run or raised
Finished == Done \/ Raised

\* Task i of stage s is in the pool's queue, not yet started nor cancelled
Queued(s, i) == i \in DOMAIN status[s] /\ status[s][i] = "pending"

\* While the call is in a stage some thread can take a step, and once the call
\* has finished no future of either pool is queued or running
NoDeadlock ==
    /\ pc[1] \in Stages => ENABLED (CallerStep \/ \E i \in 1..MaxItems : WorkerStep(i))
    /\ Finished => \A s \in Stages : PoolIdle(s)

\* C18: for any benchmark, metric list and parallelisms >= 1, when every
\* callback invocation and every metric call returns or raises and the workers
\* are scheduled fairly, score (or score_run) eventually finishes, returning a
\* Run or raising; no pool task stays pending for ever and the pools never
\* deadlock.
C18_Terminates ==
    /\ []NoDeadlock
    /\ <>[](Finished /\ \A s \in Stages : \A i \in 1..MaxItems : ~Queued(s, i))

\* score has raised after a callback failed on the first of three items while
\* another ran, the third being cancelled before it started
C18_Witness ==
    /\ Raised
    /\ entry = "score"
    /\ callback_parallelism = 2
    /\ status["gen"] = <<"failed", "done", "cancelled">>
    /\ \A s \in Stages : PoolIdle(s)

\* The stage in which the error the caller got was raised
ErrorStage == IF error.kind = "CallbackError" THEN "gen" ELSE "score"

\* C19: when several items fail in one stage, the error that reaches the
\* caller is the one of the failing item with the lowest input position,
\* whichever failure happened first; and it reaches the caller only after
\* every task of the stage that was running has finished (tasks not yet
\* started may have been cancelled).
C19_LowestFailureRaised ==
    (Raised /\ error.kind \in {"CallbackError", "MetricError"}) =>
        LET s == ErrorStage
        IN  /\ error.item \in DOMAIN status[s]
            /\ status[s][error.item] = "failed"
            /\ error = result[s][error.item]
            /\ \A j \in 1..(error.item - 1) : status[s][j] = "done"
            /\ \A i \in DOMAIN status[s] : status[s][i] \in {"done", "failed", "cancelled"}

\* Two responses scored on two workers: the metric raised for the second while
\* the first was still running, then for the first; score_run raised the
\* error of the first
C19_Witness ==
    /\ Raised
    /\ entry = "score_run"
    /\ Len(items) = 2
    /\ scoring_parallelism = 2
    /\ status["score"] = <<"failed", "failed">>
    /\ overtaken["score"]
    /\ error.kind = "MetricError"
    /\ error.item = 1

====
